---- MODULE Spec2Model ----
(***************************************************************************)
(* The ECG pipeline of Doctorino: the upload handler upload_ecg_files      *)
(* (routers/files.py) and the functions it calls in                        *)
(* ecg/ecg_classification_api.py: process_ecg_data, load_ecg_model,        *)
(* predict_segment and calculate_final_prediction.                         *)
(*                                                                         *)
(* A signal is modelled by its length: the windowing, the error paths and  *)
(* the aggregation depend on the samples only through the classifier, and  *)
(* the classifier (a torch network) is an input of the model: each call    *)
(* either raises or returns one of ModelOutputs.  Probabilities are        *)
(* integers in units of 1/ProbScale; percentages are integers in           *)
(* hundredths of a percent (7000 is 70.00).                                *)
(***************************************************************************)
EXTENDS Integers, Sequences, FiniteSets, TLC

VARIABLES
    pc,            \* position of the handler: "idle", "read", "process", "segment",
                   \* "check", "simulate", "aggregate", "done"
    upload,        \* the request's file list: "none", "unnamed" or "valid"
    readable,      \* whether wfdb.rdrecord can read the uploaded record
    nSamples,      \* number of samples of the uploaded record's first channel
    source,        \* the signal being processed: "uploaded" or "simulated"
    denoised,      \* len(denoised_data) of the signal being processed, -1 if none
    i,             \* the loop variable i of the segmentation loop
    results,       \* the list results of the handler
    caught,        \* the exception e of the inner except block, "none" outside it
    modelCalls,    \* what the classifier did on each call of this request
    model,         \* the global handle model of ecg_classification_api
    modelFile,     \* the model file on disk: "ok", "missing" or "corrupt"
    aggInput,      \* argument of a direct call of calculate_final_prediction
    aggOutput,     \* its outcome
    response,      \* the response of the handler
    segments,      \* the slices [start, end) of denoised_data given to predict_segment
    constructed,   \* number of LSTM() objects assigned to the global model
    fileReads,     \* number of torch.load(model_path) calls
    lpc,           \* position of each caller inside load_ecg_model, "idle" outside
    got,           \* what load_ecg_model last returned to each caller
    kfSignal,      \* argument signal of a direct call of hierarchical_kalman_filter
    kfParams,      \* its arguments <<Q1, R1, Q2, R2>>
    kfOutput       \* its outcome

loadVars == <<constructed, fileReads, lpc, got>>

kalmanVars == <<kfSignal, kfParams, kfOutput>>

vars == <<pc, upload, readable, nSamples, source, denoised, i, results, caught,
          modelCalls, model, modelFile, aggInput, aggOutput, response, segments,
          loadVars, kalmanVars>>

----------------------------------------------------------------------------
(* Bounds of the model *)

MaxWindows == 3     \* uploaded signals have up to MaxWindows * W + remainder samples
ProbScale == 4      \* a probability p is the integer p * ProbScale
MaxPreds == 3       \* direct calls of the aggregator take lists of up to MaxPreds results
MaxSamples == 3     \* direct calls of the filter take signals of up to MaxSamples samples
NumCallers == 3     \* callers of load_ecg_model: pipeline runs and /load-models
MantissaBits == 4   \* significant bits of a float (a Python float has 53)

(* Program constants *)

W == 300               \* the window size of the segmentation loop
SimulatedLen == 2000   \* length of the simulated test signal
NumClasses == 5        \* outputs of the network, entries of CLASS_MAPPING

ClassIds == 0 .. (NumClasses - 1)

CLASS_MAPPING ==
    [c \in ClassIds |->
        CASE c = 0 -> "Normal Beat (N)"
          [] c = 1 -> "Atrial Premature Beat (A)"
          [] c = 2 -> "Ventricular Premature Beat (V)"
          [] c = 3 -> "Left Bundle Branch Block Beat (L)"
          [] c = 4 -> "Right Bundle Branch Block Beat (R)"]

Labels == {CLASS_MAPPING[c] : c \in ClassIds}

----------------------------------------------------------------------------
(* Inputs *)

Remainders == {0, 50}

\* lengths of the uploaded signals: 0, 50, 300, 350, 600, 650, 900, 950
SignalLengths == {k * W + r : k \in 0 .. MaxWindows, r \in Remainders}

\* a probability vector of the network whose largest entry is class c
OneHot(c) == [d \in ClassIds |-> IF d = c THEN ProbScale ELSE 0]

Soft(c) ==
    [d \in ClassIds |->
        IF d = c THEN ProbScale - 2
        ELSE IF d = (c + 1) % NumClasses \/ d = (c + 2) % NumClasses THEN 1
        ELSE 0]

\* what one call ecg_model(segment_tensor) can do: raise, or return logits whose
\* argmax is class and whose softmax is probs
Returns(c, v) == [raised |-> FALSE, class |-> c, probs |-> v]

Raises == [raised |-> TRUE, class |-> -1, probs |-> [d \in ClassIds |-> 0]]

\* the behaviours of the network drawn in the pipeline
ModelOutputs == {Returns(0, Soft(0)), Returns(3, OneHot(3))}

ModelBehaviours == ModelOutputs \cup {Raises}

----------------------------------------------------------------------------
(* ecg_classification_api.py *)

\* load_ecg_model leaving the global None when the weights cannot be loaded
load_ecg_model_none_on_failure(handle, file) ==
    IF handle # "None" THEN handle
    ELSE IF file = "ok" THEN "loaded"
    ELSE "None"

\* load_ecg_model: the value of the global model after the call, which is also
\* the handle returned
load_ecg_model(handle, file) ==
    IF handle # "None" THEN handle
    ELSE IF file = "ok" THEN "loaded"
    ELSE "uninitialized"

\* the default prediction of predict_segment: class 0 with np.zeros(5), [0] = 1.0
DefaultPrediction == <<0, OneHot(0)>>

\* predict_segment with a default prediction of class 1 instead of class 0
predict_segment_other_default(ecg_model, behaviour) ==
    IF ecg_model = "None" THEN <<1, OneHot(1)>>
    ELSE IF behaviour.raised THEN <<1, OneHot(1)>>
    ELSE <<behaviour.class, behaviour.probs>>

\* predict_segment: the pair returned, given the handle load_ecg_model returned
\* and what the network does when called
predict_segment(ecg_model, behaviour) ==
    IF ecg_model = "None" THEN DefaultPrediction
    ELSE IF behaviour.raised THEN DefaultPrediction
    ELSE <<behaviour.class, behaviour.probs>>

\* process_ecg_data: the length of denoised_data, or -1 for (None, None).
\* hierarchical_kalman_filter reads signal[0], which raises on an empty signal;
\* plotOk is whether the matplotlib calls of the try block succeed
process_ecg_data(n, plotOk) ==
    IF n = 0 THEN -1
    ELSE IF ~plotOk THEN -1
    ELSE n

\* Counter(pred['prediction'] for pred in predictions): the keys of the Counter
\* in insertion order, which is the order of first occurrence
RECURSIVE CounterKeys(_)
CounterKeys(predictions) ==
    IF predictions = <<>> THEN <<>>
    ELSE LET front == SubSeq(predictions, 1, Len(predictions) - 1)
             keys == CounterKeys(front)
             last == predictions[Len(predictions)].prediction
         IN IF \E k \in DOMAIN keys : keys[k] = last THEN keys
            ELSE Append(keys, last)

\* class_counts with a key for every label of CLASS_MAPPING
class_counts_zero_filled(predictions) ==
    [l \in Labels |->
        Cardinality({k \in DOMAIN predictions : predictions[k].prediction = l})]

\* class_counts as the set of the labels that occur: each counts once
class_counts_presence(predictions) ==
    [l \in {predictions[k].prediction : k \in DOMAIN predictions} |-> 1]

\* the Counter class_counts as a mapping: its keys are the labels that occur
class_counts(predictions) ==
    [l \in {predictions[k].prediction : k \in DOMAIN predictions} |->
        Cardinality({k \in DOMAIN predictions : predictions[k].prediction = l})]

\* the iteration of max with >= for >, which keeps the last key of largest count
RECURSIVE MaxKeyFrom_last(_, _, _, _)
MaxKeyFrom_last(keys, counts, k, best) ==
    IF k > Len(keys) THEN best
    ELSE IF counts[keys[k]] >= counts[best]
         THEN MaxKeyFrom_last(keys, counts, k + 1, keys[k])
         ELSE MaxKeyFrom_last(keys, counts, k + 1, best)

\* max(keys, key=counts.get): the iteration keeps the first key seen and
\* replaces it only by a key whose count is strictly greater
RECURSIVE MaxKeyFrom(_, _, _, _)
MaxKeyFrom(keys, counts, k, best) ==
    IF k > Len(keys) THEN best
    ELSE IF counts[keys[k]] > counts[best]
         THEN MaxKeyFrom(keys, counts, k + 1, keys[k])
         ELSE MaxKeyFrom(keys, counts, k + 1, best)

\* the first key of the Counter, whatever the counts
MaxKey_first(keys, counts) == keys[1]

MaxKey(keys, counts) == MaxKeyFrom(keys, counts, 2, keys[1])

\* truncation to 2 decimals instead of rounding
Round2_truncated(num, den) == (num * 10000) \div den

\* round(x, 2) of x = num / den * 100, in hundredths: the nearest integer to
\* num * 10000 / den, a tie going to the even one (no tie occurs for den < 32,
\* and up to there the float x rounds as the exact quotient does)
Round2(num, den) ==
    LET scaled == num * 10000
        q == scaled \div den
        r == scaled % den
    IN IF 2 * r < den THEN q
       ELSE IF 2 * r > den THEN q + 1
       ELSE IF q % 2 = 0 THEN q ELSE q + 1

\* total_probabilities[label] = prob for += prob: the last prediction's value
TotalProbability_assigned(predictions, label) ==
    IF predictions = <<>> THEN 0
    ELSE predictions[Len(predictions)].probabilities[label]

\* the sum of a label's probability over the predictions
RECURSIVE TotalProbability(_, _)
TotalProbability(predictions, label) ==
    IF predictions = <<>> THEN 0
    ELSE TotalProbability(SubSeq(predictions, 1, Len(predictions) - 1), label)
         + predictions[Len(predictions)].probabilities[label]

ValueError == [raises |-> TRUE]

\* no call of calculate_final_prediction has returned yet
Pending == [raises |-> FALSE, class |-> "pending"]

\* lines 265-282 for a non-empty list: the dict returned.  distribution is the
\* Counter itself; an average probability total / len is the fraction num / den
FinalPredictionDict(predictions) ==
    LET counts == class_counts(predictions)
        final_class == MaxKey(CounterKeys(predictions), counts)
    IN [raises |-> FALSE,
        class |-> final_class,
        confidence |-> Round2(counts[final_class], Len(predictions)),
        distribution |-> counts,
        average_probabilities |->
            [l \in Labels |->
                [num |-> TotalProbability(predictions, l),
                 den |-> Len(predictions) * ProbScale]]]

\* calculate_final_prediction with max(..., default=...) and a guarded division:
\* the empty list gives a dict
calculate_final_prediction_with_default(predictions) ==
    IF CounterKeys(predictions) = <<>>
    THEN [raises |-> FALSE,
          class |-> CLASS_MAPPING[0],
          confidence |-> 0,
          distribution |-> class_counts(predictions),
          average_probabilities |-> [l \in Labels |-> [num |-> 0, den |-> 1]]]
    ELSE FinalPredictionDict(predictions)

\* calculate_final_prediction: max() of an empty Counter raises ValueError
calculate_final_prediction(predictions) ==
    IF CounterKeys(predictions) = <<>> THEN ValueError
    ELSE FinalPredictionDict(predictions)

----------------------------------------------------------------------------
(* ecg_classification_api.py: hierarchical_kalman_filter.  A float is modelled
   by the rational <<numerator, denominator>> in lowest terms it stands for,
   and an operation on floats by the exact operation followed by the rounding
   of its result to MantissaBits significant bits. *)

RECURSIVE Gcd(_, _)
Gcd(a, b) == IF b = 0 THEN a ELSE Gcd(b, a % b)

Abs(a) == IF a < 0 THEN -a ELSE a

Rat(n, d) ==
    LET g == Gcd(Abs(n), Abs(d))
    IN IF d < 0 THEN <<(-n) \div g, (-d) \div g>> ELSE <<n \div g, d \div g>>

\* the operations divide by common factors first, to keep the integers small
RAdd(x, y) ==
    LET g == Gcd(x[2], y[2])
    IN Rat(x[1] * (y[2] \div g) + y[1] * (x[2] \div g), x[2] * (y[2] \div g))

RSub(x, y) == RAdd(x, <<-y[1], y[2]>>)

RMul(x, y) ==
    LET g1 == Gcd(Abs(x[1]), y[2])
        g2 == Gcd(Abs(y[1]), x[2])
    IN Rat((x[1] \div g1) * (y[1] \div g2), (x[2] \div g2) * (y[2] \div g1))

\* x / y for y # 0
RDiv(x, y) == RMul(x, IF y[1] > 0 THEN <<y[2], y[1]>> ELSE <<-y[2], -y[1]>>)

RLess(x, y) == x[1] * y[2] < y[1] * x[2]

RECURSIVE Pow2(_)
Pow2(e) == IF e = 0 THEN 1 ELSE 2 * Pow2(e - 1)

\* the mantissa k of a float k * 2^e is in MantissaLow .. MantissaHigh - 1
MantissaHigh == Pow2(MantissaBits)

MantissaLow == Pow2(MantissaBits - 1)

\* n / d >= 0 scaled by a power of 2 into [2^(MantissaBits-1), 2^MantissaBits):
\* the scaled fraction and the exponent e with n / d = (scaled fraction) * 2^e
RECURSIVE Normalized(_, _, _)
Normalized(n, d, e) ==
    IF n >= d * MantissaHigh THEN Normalized(n, 2 * d, e + 1)
    ELSE IF n < d * MantissaLow THEN Normalized(2 * n, d, e - 1)
    ELSE [n |-> n, d |-> d, e |-> e]

\* the integer nearest to n / d, a tie going to the even one
NearestEven(n, d) ==
    LET q == n \div d
        r == n % d
    IN IF 2 * r < d THEN q
       ELSE IF 2 * r > d THEN q + 1
       ELSE IF q % 2 = 0 THEN q ELSE q + 1

\* the float nearest to the positive rational x: MantissaBits significant bits,
\* round to nearest, ties to even (the exponent range is not limited)
RoundPositive(x) ==
    LET s == Normalized(x[1], x[2], 0)
        k == NearestEven(s.n, s.d)
    IN IF s.e >= 0 THEN Rat(k * Pow2(s.e), 1) ELSE Rat(k, Pow2(-s.e))

\* the float that the exact result x of an operation is rounded to
Float(x) ==
    IF x[1] = 0 THEN x
    ELSE IF x[1] > 0 THEN RoundPositive(x)
    ELSE LET r == RoundPositive(<<-x[1], x[2]>>) IN <<-r[1], r[2]>>

\* the operations +, -, * and / of floats
FAdd(x, y) == Float(RAdd(x, y))

FSub(x, y) == Float(RSub(x, y))

FMul(x, y) == Float(RMul(x, y))

FDiv(x, y) == Float(RDiv(x, y))

Zero == <<0, 1>>

One == <<1, 1>>

\* np.zeros(n)
Zeros(n) == [k \in 1 .. n |-> Zero]

\* an initial state estimate of 0 instead of the first sample
InitialEstimate_zero(input) == Zero

\* an initial state estimate of half the first sample
InitialEstimate_halved(input) == FMul(input[1], <<1, 2>>)

\* x_hat = signal[0], the initial state estimate of a stage
InitialEstimate(input) == input[1]

\* the complement 1 - p_minus / (p_minus + R) taken for the gain
KalmanGain_complement(p_minus, divisor) == FSub(One, FDiv(p_minus, divisor))

\* K = p_minus / (p_minus + R) for a divisor that is not 0
KalmanGain(p_minus, divisor) == FDiv(p_minus, divisor)

\* the covariance update with 1 + K for 1 - K
UpdatedCovariance_grown(K, p_minus) == FMul(FAdd(One, K), p_minus)

\* p = (1 - K) * p_minus
UpdatedCovariance(K, p_minus) == FMul(FSub(One, K), p_minus)

\* the loop of one stage from sample k on: the array filled so far, the gains
\* and the covariances of the steps made, and the exception raised, if any.
\* K = p_minus / (p_minus + R) is a division of Python floats, which raises
\* ZeroDivisionError on a zero divisor
RECURSIVE StageFrom(_, _, _, _, _, _, _)
StageFrom(input, Q, R, k, x_hat, p, acc) ==
    IF k > Len(input) THEN acc
    ELSE LET x_hat_minus == x_hat
             p_minus == FAdd(p, Q)
             divisor == FAdd(p_minus, R)
         IN IF divisor = Zero
            THEN [acc EXCEPT !.error = "ZeroDivisionError"]
            ELSE LET K == KalmanGain(p_minus, divisor)
                     x_new == FAdd(x_hat_minus, FMul(K, FSub(input[k], x_hat_minus)))
                     p_new == UpdatedCovariance(K, p_minus)
                 IN StageFrom(input, Q, R, k + 1, x_new, p_new,
                              [error |-> "none",
                               out |-> [acc.out EXCEPT ![k] = x_new],
                               gains |-> Append(acc.gains, K),
                               covs |-> Append(acc.covs, p_new)])

\* one Kalman filter of hierarchical_kalman_filter on a non-empty input
Stage(input, Q, R) ==
    StageFrom(input, Q, R, 1, InitialEstimate(input), One,
              [error |-> "none", out |-> Zeros(Len(input)),
               gains |-> <<>>, covs |-> <<>>])

\* the cascade returning filtered_signal2[1:], one sample short
CascadedFilter_truncated(signal, Q1, R1, Q2, R2) ==
    LET first == Stage(signal, Q1, R1)
    IN IF first.error # "none" THEN [error |-> first.error, out |-> <<>>]
       ELSE LET second == Stage(first.out, Q2, R2)
            IN IF second.error # "none" THEN [error |-> second.error, out |-> <<>>]
               ELSE [error |-> "none", out |-> Tail(second.out),
                     first |-> first, second |-> second]

\* the cascade without lines 319-320: the second loop goes on from the estimate
\* and the covariance the first loop ended with
CascadedFilter_carrying(signal, Q1, R1, Q2, R2) ==
    LET first == Stage(signal, Q1, R1)
    IN IF first.error # "none" THEN [error |-> first.error, out |-> <<>>]
       ELSE LET second == StageFrom(first.out, Q2, R2, 1,
                                    first.out[Len(signal)], first.covs[Len(signal)],
                                    [error |-> "none", out |-> Zeros(Len(signal)),
                                     gains |-> <<>>, covs |-> <<>>])
            IN IF second.error # "none" THEN [error |-> second.error, out |-> <<>>]
               ELSE [error |-> "none", out |-> second.out,
                     first |-> first, second |-> second]

\* lines 299-336 on a non-empty signal: the second filter runs on the output of
\* the first.  With the array returned come first and second, the locals of
\* the two loops
CascadedFilter(signal, Q1, R1, Q2, R2) ==
    LET first == Stage(signal, Q1, R1)
    IN IF first.error # "none" THEN [error |-> first.error, out |-> <<>>]
       ELSE LET second == Stage(first.out, Q2, R2)
            IN IF second.error # "none" THEN [error |-> second.error, out |-> <<>>]
               ELSE [error |-> "none", out |-> second.out,
                     first |-> first, second |-> second]

\* hierarchical_kalman_filter with a guard that returns the empty signal as it is
hierarchical_kalman_filter_guarded(signal, Q1, R1, Q2, R2) ==
    IF Len(signal) = 0 THEN [error |-> "none", out |-> <<>>]
    ELSE CascadedFilter(signal, Q1, R1, Q2, R2)

\* hierarchical_kalman_filter: signal[0] raises IndexError on an empty signal
hierarchical_kalman_filter(signal, Q1, R1, Q2, R2) ==
    IF Len(signal) = 0 THEN [error |-> "IndexError", out |-> <<>>]
    ELSE CascadedFilter(signal, Q1, R1, Q2, R2)

\* no call of hierarchical_kalman_filter has been made
NotCalled == [error |-> "not called", out |-> <<>>]

----------------------------------------------------------------------------
(* routers/files.py: upload_ecg_files *)

\* the callers of load_ecg_model
Callers == 1 .. NumCallers

NoResponse == [status |-> 0]

\* the outer handler: except Exception ... raise HTTPException(500, ...)
InternalError(detail) == [status |-> 500, detail |-> detail]

\* the dict of lines 128-132 returned on both paths: no key "note"
Analysis_without_note(predictions, final_prediction, note) ==
    [status |-> 200, predictions |-> predictions,
     final_prediction |-> final_prediction, note |-> FALSE]

\* the dict returned; note is whether it has the key "note"
Analysis(predictions, final_prediction, note) ==
    [status |-> 200, predictions |-> predictions,
     final_prediction |-> final_prediction, note |-> note]

\* denoised_data[i:i+300] has min(i + 300, len) - i samples
SegmentLen(len, start) ==
    (IF start + W < len THEN start + W ELSE len) - start

\* SegmentResult with the zero-based segment number i // 300
SegmentResult_zero_based(start, pair) ==
    [segment |-> start \div W,
     prediction |-> CLASS_MAPPING[pair[1]],
     probabilities |->
        [l \in Labels |-> pair[2][CHOOSE c \in ClassIds : CLASS_MAPPING[c] = l]]]

\* the dict appended to results for the segment that starts at sample start
SegmentResult(start, pair) ==
    [segment |-> (start \div W) + 1,
     prediction |-> CLASS_MAPPING[pair[1]],
     probabilities |->
        [l \in Labels |-> pair[2][CHOOSE c \in ClassIds : CLASS_MAPPING[c] = l]]]

\* range(0, len(denoised_data) - 300, 300) has a next value
LoopContinues(len, start) == start < len - W

\* a range of step 150, whose windows of 300 samples overlap
NextStart_half(start) == start + (W \div 2)

\* the value of the range after start: its step is 300
NextStart(start) == start + W

\* the slice denoised_data[i:i+300] as the pair <<first sample, last sample + 1>>
Segment(len, start) == <<start, start + SegmentLen(len, start)>>

\* no caller is inside load_ecg_model and none has called it
LoadIdle ==
    /\ constructed = 0
    /\ fileReads = 0
    /\ lpc = [c \in Callers |-> "idle"]
    /\ got = [c \in Callers |-> "None"]

\* no direct call of hierarchical_kalman_filter is made
KalmanIdle ==
    /\ kfSignal = <<>>
    /\ kfParams = <<>>
    /\ kfOutput = NotCalled

Init ==
    /\ pc = "idle"
    /\ upload = "none"
    /\ readable = FALSE
    /\ nSamples = 0
    /\ source = "uploaded"
    /\ denoised = -1
    /\ i = 0
    /\ results = <<>>
    /\ caught = "none"
    /\ modelCalls = <<>>
    /\ model = "None"
    /\ modelFile \in {"ok", "missing", "corrupt"}
    /\ aggInput = <<>>
    /\ aggOutput = Pending
    /\ response = NoResponse
    /\ segments = <<>>
    /\ LoadIdle
    /\ KalmanIdle

\* a handler whose results, segments and classifier calls are module-level
\* lists, which a new request finds as the last one left them
Receive_shared_results ==
    /\ pc \in {"idle", "done"}
    /\ pc' = "validate"
    /\ upload' \in {"none", "unnamed", "valid"}
    /\ readable' \in BOOLEAN
    /\ nSamples' \in SignalLengths
    /\ source' = "uploaded"
    /\ denoised' = -1
    /\ i' = 0
    /\ caught' = "none"
    /\ modelCalls' = <<>>
    /\ response' = NoResponse
    /\ UNCHANGED <<results, segments>>
    /\ UNCHANGED <<model, modelFile, aggInput, aggOutput, loadVars, kalmanVars>>

\* a request arrives: the process serves one request after another, the global
\* model surviving from one to the next
Receive ==
    /\ pc \in {"idle", "done"}
    /\ pc' = "validate"
    /\ upload' \in {"none", "unnamed", "valid"}
    /\ readable' \in BOOLEAN
    /\ nSamples' \in SignalLengths
    /\ source' = "uploaded"
    /\ denoised' = -1
    /\ i' = 0
    /\ results' = <<>>
    /\ caught' = "none"
    /\ modelCalls' = <<>>
    /\ response' = NoResponse
    /\ segments' = <<>>
    /\ UNCHANGED <<model, modelFile, aggInput, aggOutput, loadVars, kalmanVars>>

\* lines 31-59: the two 400s are raised inside the outer try, whose
\* except Exception turns them into a 500
ValidateFiles ==
    /\ pc = "validate"
    /\ \/ /\ upload = "none"
          /\ response' = InternalError("400: No files uploaded")
          /\ pc' = "done"
       \/ /\ upload = "unnamed"
          /\ response' = InternalError("400: No valid files uploaded")
          /\ pc' = "done"
       \/ /\ upload = "valid"
          /\ response' = response
          /\ pc' = "read"
    /\ UNCHANGED <<upload, readable, nSamples, source, denoised, i, results,
                   caught, modelCalls, model, modelFile, aggInput, aggOutput>>
    /\ UNCHANGED <<segments, loadVars, kalmanVars>>

\* lines 79-84: wfdb.rdrecord raises on a record it cannot read, and the inner
\* except Exception goes on with the simulated signal
ReadRecord ==
    /\ pc = "read"
    /\ pc' = IF readable THEN "process" ELSE "simulate"
    /\ caught' = IF readable THEN caught ELSE "rdrecord"
    /\ UNCHANGED <<upload, readable, nSamples, source, denoised, i, results,
                   modelCalls, model, modelFile, aggInput, aggOutput, response>>
    /\ UNCHANGED <<segments, loadVars, kalmanVars>>

\* lines 86-96: the HTTPException of line 90 is raised inside the inner try and
\* caught by its except Exception
ProcessUploaded ==
    /\ pc = "process"
    /\ \E plotOk \in BOOLEAN :
          LET len == process_ecg_data(nSamples, plotOk)
          IN IF len = -1
             THEN /\ pc' = "simulate"
                  /\ caught' = "500: Failed to process ECG data"
                  /\ UNCHANGED <<denoised, i, results>>
             ELSE /\ pc' = "segment"
                  /\ caught' = caught
                  /\ denoised' = len
                  /\ i' = 0
                  /\ results' = <<>>
    /\ UNCHANGED <<upload, readable, nSamples, source, modelCalls, model,
                   modelFile, aggInput, aggOutput, response>>
    /\ UNCHANGED <<segments, loadVars, kalmanVars>>

\* lines 139-158: the HTTPException of line 152 is raised inside the except
\* block and reaches the outer handler
Simulate ==
    /\ pc = "simulate"
    /\ source' = "simulated"
    /\ \E plotOk \in BOOLEAN :
          LET len == process_ecg_data(SimulatedLen, plotOk)
          IN IF len = -1
             THEN /\ pc' = "done"
                  /\ response' =
                        InternalError("500: Failed to process simulated ECG data")
                  /\ UNCHANGED <<denoised, i, results>>
             ELSE /\ pc' = "segment"
                  /\ response' = response
                  /\ denoised' = len
                  /\ i' = 0
                  /\ results' = <<>>
    /\ UNCHANGED <<upload, readable, nSamples, caught, modelCalls, model,
                   modelFile, aggInput, aggOutput>>
    /\ UNCHANGED <<segments, loadVars, kalmanVars>>

\* lines 97-106 and 159-168: one iteration of the loop, predict_segment and
\* its load_ecg_model included
ClassifySegment ==
    /\ pc = "segment"
    /\ LoopContinues(denoised, i)
    /\ \E behaviour \in ModelBehaviours :
          IF SegmentLen(denoised, i) = W
          THEN LET ecg_model == load_ecg_model(model, modelFile)
                   pair == predict_segment(ecg_model, behaviour)
               IN /\ model' = ecg_model
                  /\ constructed' = IF model = "None" THEN constructed + 1
                                    ELSE constructed
                  /\ fileReads' = IF model = "None" /\ modelFile # "missing"
                                  THEN fileReads + 1 ELSE fileReads
                  /\ modelCalls' = Append(modelCalls, behaviour)
                  /\ segments' = Append(segments, Segment(denoised, i))
                  /\ results' = Append(results, SegmentResult(i, pair))
          ELSE UNCHANGED <<model, constructed, fileReads, modelCalls, segments,
                           results>>
    /\ i' = NextStart(i)
    /\ UNCHANGED <<pc, upload, readable, nSamples, source, denoised, caught,
                   modelFile, aggInput, aggOutput, response, lpc, got, kalmanVars>>

\* leaving the loop at any iteration, without waiting for the range to end
LoopEnd_early ==
    /\ pc = "segment"
    /\ pc' = "aggregate"
    /\ UNCHANGED <<upload, readable, nSamples, source, denoised, i, results,
                   caught, modelCalls, model, modelFile, aggInput, aggOutput, response>>
    /\ UNCHANGED <<segments, loadVars, kalmanVars>>

\* the range is exhausted
LoopEnd ==
    /\ pc = "segment"
    /\ ~LoopContinues(denoised, i)
    /\ pc' = "aggregate"
    /\ UNCHANGED <<upload, readable, nSamples, source, denoised, i, results,
                   caught, modelCalls, model, modelFile, aggInput, aggOutput, response>>
    /\ UNCHANGED <<segments, loadVars, kalmanVars>>

\* lines 108-132: on the uploaded signal an empty results raises the
\* HTTPException of line 109, which the inner except Exception catches, as it
\* would an exception of calculate_final_prediction
AggregateUploaded ==
    /\ pc = "aggregate"
    /\ source = "uploaded"
    /\ IF results = <<>>
       THEN /\ pc' = "simulate"
            /\ caught' = "500: Failed to generate predictions"
            /\ response' = response
       ELSE LET final_prediction == calculate_final_prediction(results)
            IN IF final_prediction.raises
               THEN /\ pc' = "simulate"
                    /\ caught' = "max() arg is an empty sequence"
                    /\ response' = response
               ELSE /\ pc' = "done"
                    /\ caught' = caught
                    /\ response' = Analysis(results, final_prediction, FALSE)
    /\ UNCHANGED <<upload, readable, nSamples, source, denoised, i, results,
                   modelCalls, model, modelFile, aggInput, aggOutput>>
    /\ UNCHANGED <<segments, loadVars, kalmanVars>>

\* lines 170-179: on the simulated signal results is not checked, and an
\* exception of calculate_final_prediction reaches the outer handler
AggregateSimulated ==
    /\ pc = "aggregate"
    /\ source = "simulated"
    /\ LET final_prediction == calculate_final_prediction(results)
       IN IF final_prediction.raises
          THEN response' = InternalError("max() arg is an empty sequence")
          ELSE response' = Analysis(results, final_prediction, TRUE)
    /\ pc' = "done"
    /\ UNCHANGED <<upload, readable, nSamples, source, denoised, i, results,
                   caught, modelCalls, model, modelFile, aggInput, aggOutput>>
    /\ UNCHANGED <<segments, loadVars, kalmanVars>>

Next ==
    \/ Receive
    \/ ValidateFiles
    \/ ReadRecord
    \/ ProcessUploaded
    \/ Simulate
    \/ ClassifySegment
    \/ LoopEnd
    \/ AggregateUploaded
    \/ AggregateSimulated

Spec == Init /\ [][Next]_vars

----------------------------------------------------------------------------
(* Direct calls of calculate_final_prediction *)

\* the pairs predict_segment can return: any class, with a probability vector
\* whose largest entry is that class
Pairs == {<<c, OneHot(c)>> : c \in ClassIds} \cup {<<c, Soft(c)>> : c \in ClassIds}

\* the results lists the handler can build from n pairs
ResultLists(n) ==
    {[k \in 1 .. n |-> SegmentResult((k - 1) * W, f[k])] : f \in [1 .. n -> Pairs]}

\* lists of 10 results of which 7 predict class 0 and the other 3 one other class
SevenOfTen ==
    {[k \in 1 .. 10 |->
        SegmentResult((k - 1) * W,
                      IF k \in others THEN <<c, OneHot(c)>> ELSE <<0, Soft(0)>>)] :
        others \in {S \in SUBSET (1 .. 10) : Cardinality(S) = 3},
        c \in ClassIds \ {0}}

\* lists of 5 results that predict the 5 classes once each, in any order
OneOfEach ==
    {[k \in 1 .. 5 |-> SegmentResult((k - 1) * W, <<f[k], Soft(f[k])>>)] :
        f \in {g \in [1 .. 5 -> ClassIds] : \A c \in ClassIds : \E k \in 1 .. 5 : g[k] = c}}

\* lists of 6 results of which the first predicts one class and the other 5 another
Lopsided ==
    {[k \in 1 .. 6 |->
        SegmentResult((k - 1) * W,
                      IF k = 1 THEN <<p[1], OneHot(p[1])>> ELSE <<p[2], Soft(p[2])>>)] :
        p \in {q \in ClassIds \X ClassIds : q[1] # q[2]}}

AggInputs ==
    (UNION {ResultLists(n) : n \in 0 .. MaxPreds}) \cup SevenOfTen \cup OneOfEach \cup Lopsided

InitAgg ==
    /\ pc = "idle"
    /\ upload = "none"
    /\ readable = FALSE
    /\ nSamples = 0
    /\ source = "uploaded"
    /\ denoised = -1
    /\ i = 0
    /\ results = <<>>
    /\ caught = "none"
    /\ modelCalls = <<>>
    /\ model = "None"
    /\ modelFile = "ok"
    /\ aggInput \in AggInputs
    /\ aggOutput = Pending
    /\ response = NoResponse
    /\ segments = <<>>
    /\ LoadIdle
    /\ KalmanIdle

CallAggregator ==
    /\ aggOutput = Pending
    /\ aggOutput' = calculate_final_prediction(aggInput)
    /\ UNCHANGED <<pc, upload, readable, nSamples, source, denoised, i, results,
                   caught, modelCalls, model, modelFile, aggInput, response>>
    /\ UNCHANGED <<segments, loadVars, kalmanVars>>

NextAgg == CallAggregator

SpecAgg == InitAgg /\ [][NextAgg]_vars

----------------------------------------------------------------------------
(* Direct calls of hierarchical_kalman_filter *)

\* sample values, each one a float of at most MantissaBits bits
SampleValues == {<<-1, 1>>, <<9, 64>>, <<1, 1>>}

\* values of Q1, R1, Q2 and R2: the function takes any float
ParamValues == {<<-1, 1>>, <<0, 1>>, <<1, 32>>, <<1, 1>>}

KalmanSignals == UNION {[1 .. n -> SampleValues] : n \in 0 .. MaxSamples}

InitKalman ==
    /\ pc = "idle"
    /\ upload = "none"
    /\ readable = FALSE
    /\ nSamples = 0
    /\ source = "uploaded"
    /\ denoised = -1
    /\ i = 0
    /\ results = <<>>
    /\ caught = "none"
    /\ modelCalls = <<>>
    /\ model = "None"
    /\ modelFile = "ok"
    /\ aggInput = <<>>
    /\ aggOutput = Pending
    /\ response = NoResponse
    /\ segments = <<>>
    /\ LoadIdle
    /\ kfSignal \in KalmanSignals
    /\ kfParams \in [1 .. 4 -> ParamValues]
    /\ kfOutput = NotCalled

CallFilter ==
    /\ kfOutput = NotCalled
    /\ kfOutput' = hierarchical_kalman_filter(kfSignal, kfParams[1], kfParams[2],
                                              kfParams[3], kfParams[4])
    /\ UNCHANGED <<pc, upload, readable, nSamples, source, denoised, i, results,
                   caught, modelCalls, model, modelFile, aggInput, aggOutput,
                   response, segments, loadVars, kfSignal, kfParams>>

NextKalman == CallFilter

SpecKalman == InitKalman /\ [][NextKalman]_vars

----------------------------------------------------------------------------
(* Callers of load_ecg_model, statement by statement.  A caller is a request
   handler: upload_ecg_files through predict_segment, or load_models.  Both
   are coroutines (async def) without an await between their first and last
   statement, and the server is one uvicorn process with one event loop, so a
   handler runs from start to end before the loop starts another one.  The
   global model goes through the values "None", "constructed" (LSTM()
   assigned, weights random, training mode), "weights_loaded" (state dict
   loaded, training mode), and "loaded" or "uninitialized" (eval mode). *)

\* threads instead of the event loop: a caller starts at any time
EventLoopFree_threaded == TRUE

\* the event loop is free to start a handler: none is running
EventLoopFree == \A c \in Callers : lpc[c] = "idle"

InitLoad ==
    /\ pc = "idle"
    /\ upload = "none"
    /\ readable = FALSE
    /\ nSamples = 0
    /\ source = "uploaded"
    /\ denoised = -1
    /\ i = 0
    /\ results = <<>>
    /\ caught = "none"
    /\ modelCalls = <<>>
    /\ model = "None"
    /\ modelFile \in {"ok", "missing", "corrupt"}
    /\ aggInput = <<>>
    /\ aggOutput = Pending
    /\ response = NoResponse
    /\ segments = <<>>
    /\ LoadIdle
    /\ KalmanIdle

\* what the steps of load_ecg_model leave alone
LoadFrame ==
    UNCHANGED <<pc, upload, readable, nSamples, source, denoised, i, results,
                caught, modelCalls, modelFile, aggInput, aggOutput, response,
                segments, kalmanVars>>

\* a handler is started and reaches its call of load_ecg_model
CallLoad(c) ==
    /\ EventLoopFree
    /\ lpc[c] = "idle"
    /\ lpc' = [lpc EXCEPT ![c] = "check"]
    /\ UNCHANGED <<model, constructed, fileReads, got>>
    /\ LoadFrame

\* load_ecg_model without lines 79-80: every call constructs
CheckLoaded_absent(c) ==
    /\ lpc[c] = "check"
    /\ lpc' = [lpc EXCEPT ![c] = "construct"]
    /\ UNCHANGED <<model, constructed, fileReads, got>>
    /\ LoadFrame

\* lines 79-80: if model is not None: return model
CheckLoaded(c) ==
    /\ lpc[c] = "check"
    /\ IF model # "None"
       THEN /\ got' = [got EXCEPT ![c] = model]
            /\ lpc' = [lpc EXCEPT ![c] = "idle"]
       ELSE /\ got' = got
            /\ lpc' = [lpc EXCEPT ![c] = "construct"]
    /\ UNCHANGED <<model, constructed, fileReads>>
    /\ LoadFrame

\* line 83: model = LSTM()
Construct(c) ==
    /\ lpc[c] = "construct"
    /\ model' = "constructed"
    /\ constructed' = constructed + 1
    /\ lpc' = [lpc EXCEPT ![c] = "exists"]
    /\ UNCHANGED <<fileReads, got>>
    /\ LoadFrame

\* lines 88-93: without the file, model.eval() and return
CheckFile(c) ==
    /\ lpc[c] = "exists"
    /\ IF modelFile = "missing"
       THEN /\ model' = "uninitialized"
            /\ lpc' = [lpc EXCEPT ![c] = "return"]
       ELSE /\ model' = model
            /\ lpc' = [lpc EXCEPT ![c] = "load"]
    /\ UNCHANGED <<constructed, fileReads, got>>
    /\ LoadFrame

\* line 95: model.load_state_dict(torch.load(...)), which raises on a file it
\* cannot load
LoadWeights(c) ==
    /\ lpc[c] = "load"
    /\ fileReads' = fileReads + 1
    /\ IF modelFile = "ok"
       THEN /\ model' = "weights_loaded"
            /\ lpc' = [lpc EXCEPT ![c] = "eval"]
       ELSE /\ model' = model
            /\ lpc' = [lpc EXCEPT ![c] = "except"]
    /\ UNCHANGED <<constructed, got>>
    /\ LoadFrame

\* line 96: model.eval()
Eval(c) ==
    /\ lpc[c] = "eval"
    /\ model' = "loaded"
    /\ lpc' = [lpc EXCEPT ![c] = "return"]
    /\ UNCHANGED <<constructed, fileReads, got>>
    /\ LoadFrame

\* an except block that drops the model, so that the next call loads again
Except_reset(c) ==
    /\ lpc[c] = "except"
    /\ model' = "None"
    /\ lpc' = [lpc EXCEPT ![c] = "return"]
    /\ UNCHANGED <<constructed, fileReads, got>>
    /\ LoadFrame

\* lines 98-104: the except block, model.eval() on the random weights
Except(c) ==
    /\ lpc[c] = "except"
    /\ model' = "uninitialized"
    /\ lpc' = [lpc EXCEPT ![c] = "return"]
    /\ UNCHANGED <<constructed, fileReads, got>>
    /\ LoadFrame

\* lines 93 and 106: return model
ReturnModel(c) ==
    /\ lpc[c] = "return"
    /\ got' = [got EXCEPT ![c] = model]
    /\ lpc' = [lpc EXCEPT ![c] = "idle"]
    /\ UNCHANGED <<model, constructed, fileReads>>
    /\ LoadFrame

NextLoad ==
    \E c \in Callers :
        \/ CallLoad(c)
        \/ CheckLoaded(c)
        \/ Construct(c)
        \/ CheckFile(c)
        \/ LoadWeights(c)
        \/ Eval(c)
        \/ Except(c)
        \/ ReturnModel(c)

SpecLoad == InitLoad /\ [][NextLoad]_vars

----------------------------------------------------------------------------
(* Properties *)

Normal == CLASS_MAPPING[0]

\* the probabilities dict of the fixed fallback [1,0,0,0,0]
FallbackProbabilities == [l \in Labels |-> IF l = Normal THEN ProbScale ELSE 0]

RECURSIVE SumOver(_, _)
SumOver(f, S) ==
    IF S = {} THEN 0
    ELSE LET x == CHOOSE y \in S : TRUE
         IN f[x] + SumOver(f, S \ {x})

Occurrences(predictions, l) ==
    Cardinality({k \in DOMAIN predictions : predictions[k].prediction = l})

\* position of the first result that predicts l
FirstOccurrence(predictions, l) ==
    CHOOSE k \in DOMAIN predictions :
        /\ predictions[k].prediction = l
        /\ \A j \in 1 .. (k - 1) : predictions[j].prediction # l

Returned == pc = "done" /\ response.status = 200

Aggregated == aggOutput # Pending /\ ~aggOutput.raises

\* C1: when the segmentation loop has ended on a denoised signal of N samples,
\* results holds exactly floor(N / W) SegmentResults (3 for 900 samples, 2 for 650).
C1_SegmentCountIsFloor ==
    pc = "aggregate" => Len(results) = denoised \div W

\* C2: a segment on which the classifier raised has the result Normal with
\* probabilities [1,0,0,0,0], every other segment has the class and probabilities
\* the classifier returned for it, and a run in which the classifier raised still
\* returns one SegmentResult per segment and an aggregate over all of them.
C2_FailureIsSegmentLocal ==
    /\ Len(results) = Len(modelCalls)
    /\ \A k \in DOMAIN results :
          IF modelCalls[k].raised
          THEN /\ results[k].prediction = Normal
               /\ results[k].probabilities = FallbackProbabilities
          ELSE /\ results[k].prediction = CLASS_MAPPING[modelCalls[k].class]
               /\ \A c \in ClassIds :
                     results[k].probabilities[CLASS_MAPPING[c]] = modelCalls[k].probs[c]
    /\ (pc = "done" /\ \E k \in DOMAIN modelCalls : modelCalls[k].raised) =>
          /\ response.status = 200
          /\ response.predictions = results
          /\ \A l \in DOMAIN response.final_prediction.distribution :
                response.final_prediction.distribution[l] = Occurrences(results, l)
          /\ SumOver(response.final_prediction.distribution,
                     DOMAIN response.final_prediction.distribution) = Len(modelCalls)

\* a run returned in which the classifier raised on one segment and classified
\* another one as something else than Normal
C2_Witness ==
    /\ Returned
    /\ \E k \in DOMAIN modelCalls : modelCalls[k].raised
    /\ \E k \in DOMAIN modelCalls :
          ~modelCalls[k].raised /\ results[k].prediction # Normal

\* C3: when the weights could not be loaded (model file missing or corrupt),
\* every segment result is the fixed fallback Normal, [1,0,0,0,0].
C3_UnavailableGivesFallback ==
    modelFile # "ok" =>
        \A k \in DOMAIN results :
            /\ results[k].prediction = Normal
            /\ results[k].probabilities = FallbackProbabilities

\* C4: a request whose record holds a signal of 1 to W - 1 samples, which is
\* filtered and gives no segment, ends with an error response and never with
\* predictions and a final prediction.
C4_ShortSignalIsFatal ==
    (/\ pc = "done"
     /\ nSamples >= 1
     /\ nSamples < W
     /\ caught = "500: Failed to generate predictions") =>
        response.status # 200

\* C5: a request for whose signal process_ecg_data returned (None, None), as
\* it does for the empty signal, ends with an error response and never with
\* predictions and a final prediction.
C5_FilterFailureIsFatal ==
    (pc = "done" /\ caught = "500: Failed to process ECG data") =>
        response.status # 200

\* C6: calculate_final_prediction of the empty list raises, and no response of
\* the handler carries an empty predictions list with a final prediction.
C6_EmptyAggregationFails ==
    /\ calculate_final_prediction(<<>>).raises
    /\ Returned =>
          /\ response.predictions # <<>>
          /\ response.final_prediction = calculate_final_prediction(response.predictions)

\* the handler reached line 108 with an empty results and went on with the
\* simulated signal instead of aggregating
C6_Witness ==
    /\ pc = "simulate"
    /\ caught = "500: Failed to generate predictions"
    /\ results = <<>>

\* C7: a finished run on an uploaded signal has either an error response or a
\* response with non-empty predictions of that signal and the aggregate of
\* those predictions.
C7_CompleteOrFatal ==
    (pc = "done" /\ upload = "valid" /\ readable) =>
        \/ response.status = 500
        \/ /\ response.status = 200
           /\ source = "uploaded"
           /\ response.predictions # <<>>
           /\ response.final_prediction = calculate_final_prediction(response.predictions)

\* C8: the final class has the largest occurrence count, and among the labels
\* with that count it is the one whose first occurrence comes first.
C8_MajorityWithEarliestTie ==
    Aggregated =>
        /\ Occurrences(aggInput, aggOutput.class) > 0
        /\ \A l \in Labels :
              /\ Occurrences(aggInput, l) <= Occurrences(aggInput, aggOutput.class)
              /\ (Occurrences(aggInput, l) = Occurrences(aggInput, aggOutput.class)) =>
                    FirstOccurrence(aggInput, aggOutput.class)
                        <= FirstOccurrence(aggInput, l)

\* an aggregate of a list in which the final class ties with the label of the
\* last result
C8_Witness ==
    /\ Aggregated
    /\ \E l \in Labels \ {aggOutput.class} :
          /\ Occurrences(aggInput, l) = Occurrences(aggInput, aggOutput.class)
          /\ aggInput[Len(aggInput)].prediction = l

\* C9: confidence is count(final class) / total * 100 rounded to 2 decimals
\* (the hundredth nearest to it) and lies in [0, 100]; 7 Normal Beat out of 10
\* give the final class Normal Beat with confidence 70.0.
C9_ConfidenceIsRoundedShare ==
    Aggregated =>
        LET n == Len(aggInput)
            count == Occurrences(aggInput, aggOutput.class)
            diff == aggOutput.confidence * n - count * 10000
        IN /\ 2 * diff <= n
           /\ 2 * diff >= -n
           /\ aggOutput.confidence >= 0
           /\ aggOutput.confidence <= 10000
           /\ (n = 10 /\ Occurrences(aggInput, Normal) = 7) =>
                 /\ aggOutput.class = Normal
                 /\ aggOutput.confidence = 7000

C9_Witness ==
    /\ Aggregated
    /\ Len(aggInput) = 10
    /\ Occurrences(aggInput, Normal) = 7
    /\ aggOutput.confidence = 7000

\* a list whose share is not a whole number of hundredths: 2 of 3
C9_WitnessRounded ==
    /\ Aggregated
    /\ Len(aggInput) = 3
    /\ aggOutput.confidence = 6667

\* C10 as claimed: distribution has an entry for every one of the 5 labels.
C10_DistributionZeroFilled ==
    Aggregated => DOMAIN aggOutput.distribution = Labels

\* C10 as amended: distribution has an entry exactly for the labels that some
\* segment predicted, each with its occurrence count, which is at least 1;
\* average_probabilities is what has an entry for every one of the 5 labels.
C10_DistributionOfObservedLabels ==
    Aggregated =>
        /\ DOMAIN aggOutput.distribution =
              {l \in Labels : Occurrences(aggInput, l) > 0}
        /\ \A l \in DOMAIN aggOutput.distribution :
              /\ aggOutput.distribution[l] = Occurrences(aggInput, l)
              /\ aggOutput.distribution[l] >= 1
        /\ DOMAIN aggOutput.average_probabilities = Labels

\* an aggregate of a list in which some label does not occur
C10_Witness ==
    /\ Aggregated
    /\ \E l \in Labels : Occurrences(aggInput, l) = 0
    /\ Cardinality(DOMAIN aggOutput.distribution) >= 2

\* C11: in every returned result the counts of distribution sum to the number of
\* segments given to the classifier, which is the number of returned predictions.
C11_DistributionSumsToSegments ==
    Returned =>
        LET distribution == response.final_prediction.distribution
        IN /\ SumOver(distribution, DOMAIN distribution) = Len(response.predictions)
           /\ Len(response.predictions) = Len(segments)
           /\ Len(segments) = Len(modelCalls)

\* a returned result of at least 3 predictions with two different labels
C11_Witness ==
    /\ Returned
    /\ Len(response.predictions) >= 3
    /\ Cardinality(DOMAIN response.final_prediction.distribution) = 2

\* the probabilities of label l in the results of predictions
ProbabilitiesOf(predictions, l) ==
    [k \in DOMAIN predictions |-> predictions[k].probabilities[l]]

\* C12: average_probabilities has an entry for each of the 5 labels, which is the
\* mean of that label's probability over the predictions, and the 5 entries sum
\* to 1.
C12_AverageProbabilities ==
    Aggregated =>
        LET average == aggOutput.average_probabilities
            n == Len(aggInput)
        IN /\ DOMAIN average = Labels
           /\ Cardinality(Labels) = NumClasses
           /\ \A l \in Labels :
                 /\ average[l].den = n * ProbScale
                 /\ average[l].num =
                       SumOver(ProbabilitiesOf(aggInput, l), DOMAIN aggInput)
           /\ SumOver([l \in Labels |-> average[l].num], Labels) = n * ProbScale

\* an aggregate of at least 2 predictions whose probabilities for some label
\* differ, the mean lying strictly between 0 and 1
C12_Witness ==
    /\ Aggregated
    /\ Len(aggInput) >= 2
    /\ \E l \in Labels :
          /\ aggInput[1].probabilities[l] # aggInput[2].probabilities[l]
          /\ aggOutput.average_probabilities[l].num > 0
          /\ aggOutput.average_probabilities[l].num
                < aggOutput.average_probabilities[l].den

C18_SegmentNumbersAreConsecutive ==
    /\ \A k \in DOMAIN results : results[k].segment = k
    /\ Returned =>
          \A k \in DOMAIN response.predictions : response.predictions[k].segment = k

\* a returned result of at least 3 predictions
C18_Witness ==
    /\ Returned
    /\ Len(response.predictions) >= 3
    /\ response.predictions[3].segment = 3

\* C19: the k-th segment given to the classifier is the window
\* [(k-1) * W, k * W) of exactly W samples of the denoised signal: the windows
\* do not overlap and none reaches into the trailing remainder.
C19_WindowsAreDisjointAndFull ==
    \A k \in DOMAIN segments :
        /\ segments[k] = <<(k - 1) * W, k * W>>
        /\ segments[k][2] - segments[k][1] = W
        /\ segments[k][2] <= (denoised \div W) * W
        /\ \A j \in 1 .. (k - 1) : segments[j][2] <= segments[k][1]

\* the loop has ended on a signal with a trailing remainder, after at least 2
\* windows
C19_Witness ==
    /\ pc = "aggregate"
    /\ denoised % W # 0
    /\ Len(segments) >= 2

FilterCalled == kfOutput # NotCalled

PositiveParams == \A j \in DOMAIN kfParams : RLess(Zero, kfParams[j])

\* C13 as claimed: for every signal of N >= 1 samples and every choice of Q1,
\* R1, Q2 and R2, hierarchical_kalman_filter returns exactly N samples.
C13_LengthPreservedForAllParams ==
    (FilterCalled /\ Len(kfSignal) >= 1) =>
        /\ kfOutput.error = "none"
        /\ Len(kfOutput.out) = Len(kfSignal)

\* C13 as amended: for every signal of N >= 1 samples and strictly positive Q1,
\* R1, Q2 and R2, hierarchical_kalman_filter returns exactly N samples; for
\* other parameters it returns exactly N samples or raises ZeroDivisionError.
C13_LengthPreservedForPositiveParams ==
    (FilterCalled /\ Len(kfSignal) >= 1) =>
        /\ PositiveParams => kfOutput.error = "none"
        /\ kfOutput.error \in {"none", "ZeroDivisionError"}
        /\ kfOutput.error = "none" => Len(kfOutput.out) = Len(kfSignal)

\* a signal of 3 different samples filtered with positive parameters
C13_Witness ==
    /\ FilterCalled
    /\ PositiveParams
    /\ Len(kfSignal) = 3
    /\ kfSignal[1] # kfSignal[2]
    /\ Len(kfOutput.out) = 3

\* the division by zero: p_minus + R1 = 0 at the first sample
C13_WitnessZeroDivision ==
    /\ FilterCalled
    /\ Len(kfSignal) >= 1
    /\ RAdd(RAdd(One, kfParams[1]), kfParams[2]) = Zero
    /\ kfOutput.error = "ZeroDivisionError"

\* C14: for a constant signal of N >= 2 samples c and positive Q1, R1, Q2 and
\* R2, every sample hierarchical_kalman_filter returns equals c.
C14_ConstantSignalIsFixed ==
    (/\ FilterCalled
     /\ Len(kfSignal) >= 2
     /\ \A k \in DOMAIN kfSignal : kfSignal[k] = kfSignal[1]
     /\ PositiveParams) =>
        /\ kfOutput.error = "none"
        /\ DOMAIN kfOutput.out = DOMAIN kfSignal
        /\ \A k \in DOMAIN kfOutput.out : kfOutput.out[k] = kfSignal[1]

\* a constant signal of 3 samples c # 0 filtered with positive parameters
C14_Witness ==
    /\ FilterCalled
    /\ PositiveParams
    /\ Len(kfSignal) = 3
    /\ kfSignal[1] # Zero
    /\ \A k \in DOMAIN kfSignal : kfSignal[k] = kfSignal[1]
    /\ \A k \in DOMAIN kfOutput.out : kfOutput.out[k] = kfSignal[1]

\* C15: hierarchical_kalman_filter called on the empty signal raises an error,
\* whatever the parameters, and returns no sequence.
C15_EmptySignalFails ==
    (FilterCalled /\ Len(kfSignal) = 0) =>
        /\ kfOutput.error # "none"
        /\ kfOutput.error = "IndexError"

\* the filter was called on the empty signal
C15_Witness ==
    /\ FilterCalled
    /\ kfSignal = <<>>
    /\ kfOutput.error = "IndexError"

\* the callers load_ecg_model has returned a handle to
Holders == {c \in Callers : got[c] # "None"}

\* C16: whatever the order in which the callers of load_ecg_model run, at most
\* one model object is ever constructed and assigned to the global model, and
\* the model file is read at most once.
C16_InitializedAtMostOnce ==
    /\ constructed <= 1
    /\ fileReads <= 1
    /\ constructed = 0 <=> model = "None"

\* two callers hold the handle and one object was constructed
C16_Witness ==
    /\ Cardinality(Holders) >= 2
    /\ constructed = 1
    /\ EventLoopFree

C20_WitnessAssignedBeforeLoaded ==
    /\ model = "weights_loaded"
    /\ Holders = {}

\* the two stages of a call that returned, with the gain and the covariance of
\* every step
FirstStage == kfOutput.first

SecondStage == kfOutput.second

\* p_minus at step k of a stage with process noise Q
PMinus(stage, Q, k) == FAdd(IF k = 1 THEN One ELSE stage.covs[k - 1], Q)

FilteredPositive ==
    /\ FilterCalled
    /\ Len(kfSignal) >= 1
    /\ PositiveParams

\* C23 as claimed: for strictly positive Q and R the gain of every step of
\* either stage lies strictly between 0 and 1.
C23_GainStrictlyInside ==
    (FilteredPositive /\ kfOutput.error = "none") =>
        \A stage \in {FirstStage, SecondStage} :
            \A k \in DOMAIN stage.gains :
                RLess(Zero, stage.gains[k]) /\ RLess(stage.gains[k], One)

\* the gain of step k of a stage is in (0, 1], and it is 1 exactly when R is
\* lost in the rounding of p_minus + R
GainInside(stage, Q, R, k) ==
    /\ RLess(Zero, stage.gains[k])
    /\ ~RLess(One, stage.gains[k])
    /\ stage.gains[k] = One <=> FAdd(PMinus(stage, Q, k), R) = PMinus(stage, Q, k)

\* C23 as amended: for strictly positive Q and R the gain of every step of
\* either stage is greater than 0 and at most 1; it is 1 exactly when
\* p_minus + R rounds to p_minus, and strictly below 1 otherwise.
C23_GainInsideOrOne ==
    FilteredPositive =>
        /\ kfOutput.error = "none"
        /\ Len(FirstStage.gains) = Len(kfSignal)
        /\ Len(SecondStage.gains) = Len(kfSignal)
        /\ \A k \in DOMAIN FirstStage.gains :
              GainInside(FirstStage, kfParams[1], kfParams[2], k)
        /\ \A k \in DOMAIN SecondStage.gains :
              GainInside(SecondStage, kfParams[3], kfParams[4], k)

\* a call in which one stage has a gain of 1 and the other one gains below 1
C23_Witness ==
    /\ FilteredPositive
    /\ kfOutput.error = "none"
    /\ Len(kfSignal) >= 2
    /\ \E k \in DOMAIN FirstStage.gains : FirstStage.gains[k] = One
    /\ \A k \in DOMAIN SecondStage.gains : RLess(SecondStage.gains[k], One)

RECURSIVE RMinOf(_)
RMinOf(seq) ==
    IF Len(seq) = 1 THEN seq[1]
    ELSE LET m == RMinOf(Tail(seq)) IN IF RLess(seq[1], m) THEN seq[1] ELSE m

RECURSIVE RMaxOf(_)
RMaxOf(seq) ==
    IF Len(seq) = 1 THEN seq[1]
    ELSE LET m == RMaxOf(Tail(seq)) IN IF RLess(m, seq[1]) THEN seq[1] ELSE m

RLessEq(x, y) == ~RLess(y, x)

\* the rounding allowance on the range of a signal: 4 * (max - min) / 2^MantissaBits
Allowance(seq) == RMul(RSub(RMaxOf(seq), RMinOf(seq)), <<4, MantissaHigh>>)

CovarianceInside(stage, Q, k) ==
    /\ RLessEq(Zero, stage.covs[k])
    /\ RLessEq(stage.covs[k], PMinus(stage, Q, k))
    /\ stage.covs[k] = Zero <=> stage.gains[k] = One

C30_WitnessInside ==
    /\ FilteredPositive
    /\ kfOutput.error = "none"
    /\ \A stage \in {FirstStage, SecondStage} :
          \A k \in DOMAIN stage.covs : RLess(Zero, stage.covs[k])
    /\ \E k \in DOMAIN kfOutput.out :
          /\ RLess(RMinOf(kfSignal), kfOutput.out[k])
          /\ RLess(kfOutput.out[k], RMaxOf(kfSignal))

\* the single-stage recurrence of the specification: the state after k samples,
\* started from (first sample of the input, covariance 1)
RECURSIVE StageState(_, _, _, _)
StageState(input, Q, R, k) ==
    IF k = 0 THEN [estimate |-> input[1], p |-> One]
    ELSE LET prev == StageState(input, Q, R, k - 1)
             predicted == FAdd(prev.p, Q)
             Kg == FDiv(predicted, FAdd(predicted, R))
         IN [estimate |-> FAdd(prev.estimate,
                               FMul(Kg, FSub(input[k], prev.estimate))),
             p |-> FMul(FSub(One, Kg), predicted)]

\* output[i] = estimate after sample i
ReferenceStage(input, Q, R) ==
    [k \in 1 .. Len(input) |-> StageState(input, Q, R, k).estimate]

\* C22: hierarchical_kalman_filter(signal, Q1, R1, Q2, R2) is
\* stage(stage(signal, Q1, R1), Q2, R2) for the single-stage recurrence of the
\* specification, each stage starting from the first sample of its own input
\* and covariance 1.
C22_CascadeOfTwoFreshStages ==
    FilteredPositive =>
        /\ kfOutput.error = "none"
        /\ FirstStage.out = ReferenceStage(kfSignal, kfParams[1], kfParams[2])
        /\ kfOutput.out =
              ReferenceStage(ReferenceStage(kfSignal, kfParams[1], kfParams[2]),
                             kfParams[3], kfParams[4])

\* a call in which the first stage ends with a covariance other than 1 and an
\* estimate other than its first output, which the second stage does not take up
C22_Witness ==
    /\ FilteredPositive
    /\ kfOutput.error = "none"
    /\ Len(kfSignal) >= 2
    /\ FirstStage.covs[Len(kfSignal)] # One
    /\ FirstStage.out[Len(kfSignal)] # FirstStage.out[1]
    /\ SecondStage.gains[1] = FDiv(FAdd(One, kfParams[3]),
                                   FAdd(FAdd(One, kfParams[3]), kfParams[4]))

\* C24: for a signal of one sample and positive parameters
\* hierarchical_kalman_filter returns that sample.
C24_SingleSampleIsReturned ==
    (FilteredPositive /\ Len(kfSignal) = 1) =>
        /\ kfOutput.error = "none"
        /\ kfOutput.out = <<kfSignal[1]>>

\* a call on one sample in which both gains are below 1
C24_Witness ==
    /\ FilteredPositive
    /\ kfOutput.error = "none"
    /\ Len(kfSignal) = 1
    /\ RLess(FirstStage.gains[1], One)
    /\ RLess(SecondStage.gains[1], One)
    /\ kfOutput.out[1] = kfSignal[1]

\* the length of the signal a run works on, once it is filtered
FilteredLen == IF source = "uploaded" THEN nSamples ELSE SimulatedLen

\* C21: within a run the stages are strictly ordered.  Segments are cut only
\* from a denoised signal that is complete and no longer changes, each one is
\* classified as it is cut, and aggregation starts only when the range of the
\* loop is exhausted and every segment of the run has its result.
C21_StagesAreOrdered ==
    /\ [](/\ (pc \in {"segment", "aggregate"}) => (denoised = FilteredLen)
          /\ \A k \in DOMAIN segments : segments[k][2] <= denoised
          /\ Len(results) = Len(segments)
          /\ (pc = "aggregate") =>
                (/\ ~LoopContinues(denoised, i)
                 /\ Len(results) = i \div W))
    /\ [][/\ (Len(segments') > Len(segments)) =>
               (/\ pc = "segment"
                /\ denoised' = denoised
                /\ Len(results') = Len(results) + 1)
          /\ (denoised' # denoised) => (segments' = <<>> /\ results' = <<>>)
          /\ (response' # response /\ response'.status = 200) =>
               (/\ pc = "aggregate"
                /\ response'.predictions = results)]_vars

\* aggregation is about to start on the results of 3 segments of an upload
C21_Witness ==
    /\ pc = "aggregate"
    /\ source = "uploaded"
    /\ Len(results) = 3
    /\ Len(segments) = 3

\* the values of the handle and the states of the model file
Handles == {"None", "loaded", "uninitialized"}

ModelFiles == {"ok", "missing", "corrupt"}

\* C25: predict_segment is total.  For every handle and every behaviour of the
\* network it returns a class id in 0..4 with exactly 5 probabilities;
\* load_ecg_model never returns None, so the handle is never None once a
\* segment was classified, and every window cut has exactly one result.
C25_PredictSegmentIsTotal ==
    /\ \A h \in Handles : \A f \in ModelFiles : load_ecg_model(h, f) # "None"
    /\ \A h \in Handles : \A b \in ModelBehaviours :
          LET pair == predict_segment(h, b)
          IN /\ pair[1] \in ClassIds
             /\ DOMAIN pair[2] = ClassIds
    /\ model \in Handles
    /\ modelCalls # <<>> => model # "None"
    /\ Len(results) = Len(segments)
    /\ Len(segments) = Len(modelCalls)
    /\ pc = "segment" => Len(results) = i \div W
    /\ \A k \in DOMAIN results :
          /\ results[k].prediction \in Labels
          /\ DOMAIN results[k].probabilities = Labels

\* the loop has ended on 2 or more windows with a model file that could not be
\* loaded and a network that raised on a segment
C25_Witness ==
    /\ pc = "aggregate"
    /\ modelFile = "corrupt"
    /\ Len(results) >= 2
    /\ \E k \in DOMAIN modelCalls : modelCalls[k].raised
    /\ \E k \in DOMAIN modelCalls : ~modelCalls[k].raised

\* C26: a returned analysis has the note exactly when its predictions come
\* from the simulated signal of 2000 samples, which is when the inner except
\* block ran; an analysis without the note comes from the uploaded record.  An
\* error response has neither note nor predictions.
C26_NoteIffSimulated ==
    /\ Returned =>
          /\ response.note <=> source = "simulated"
          /\ response.note <=> caught # "none"
          /\ response.predictions = results
          /\ response.note => denoised = SimulatedLen
          /\ ~response.note =>
                /\ upload = "valid"
                /\ readable
                /\ denoised = nSamples
    /\ (pc = "done" /\ ~Returned) =>
          DOMAIN response = {"status", "detail"}

\* a readable record of at least one window was uploaded and the analysis
\* returned is the one of the simulated signal
C26_Witness ==
    /\ Returned
    /\ response.note
    /\ readable
    /\ nSamples >= W
    /\ Len(response.predictions) = 6

\* C27: a request without files, or without a file that has a filename, is
\* answered with status 400 and no signal is processed.
C27_MissingFilesGive400 ==
    (pc = "done" /\ upload \in {"none", "unnamed"}) =>
        /\ response.status = 400
        /\ denoised = -1
        /\ results = <<>>

\* the callers that are not inside load_ecg_model
Outside == {c \in Callers : lpc[c] = "idle"}

\* C28: loading is attempted at most once per process.  The file is read at
\* most once and never when it is missing; once a call has returned, whether
\* the weights were loaded, the file was missing or loading raised, every later
\* call returns the same handle without constructing or reading again.
C28_LoadedAtMostOnce ==
    /\ [](/\ fileReads <= 1
          /\ modelFile = "missing" => fileReads = 0
          /\ \A c, d \in Holders : got[c] = got[d]
          /\ \A c \in Holders \cap Outside : got[c] = model)
    /\ [][Holders # {} =>
            /\ fileReads' = fileReads
            /\ constructed' = constructed
            /\ \A c \in Holders : got'[c] = got[c]]_vars

\* loading raised on the first call and two later calls have returned
C28_Witness ==
    /\ modelFile = "corrupt"
    /\ fileReads = 1
    /\ Cardinality(Holders \cap Outside) = 3
    /\ \A c \in Holders : got[c] = "uninitialized"

\* C29: for a non-empty list of n results over the 5 labels, the final class
\* is the label of one of the results, its count is at least ceil(n / 5), and
\* the confidence is at least 20 and at most 100.
C29_FinalClassIsPredictedWithFifth ==
    (Aggregated /\ Len(aggInput) >= 1) =>
        LET n == Len(aggInput)
            count == Occurrences(aggInput, aggOutput.class)
        IN /\ \E k \in DOMAIN aggInput : aggInput[k].prediction = aggOutput.class
           /\ count * Cardinality(Labels) >= n
           /\ aggOutput.distribution[aggOutput.class] = count
           /\ aggOutput.confidence >= 2000
           /\ aggOutput.confidence <= 10000

\* the 5 labels once each: the count is exactly ceil(5 / 5) and the confidence
\* exactly 20
C29_Witness ==
    /\ Aggregated
    /\ Len(aggInput) = 5
    /\ Occurrences(aggInput, aggOutput.class) = 1
    /\ aggOutput.confidence = 2000

\* 6 results in which the label seen first is not the final class
C29_WitnessLaterLabel ==
    /\ Aggregated
    /\ Len(aggInput) = 6
    /\ aggInput[1].prediction # aggOutput.class
    /\ aggOutput.confidence = 8333

====
